---- MODULE Spec2Model ----
(***************************************************************************)
(* Model of the Anchor program favorites (programs/favorites/src/lib.rs).   *)
(* The ledger is a map from addresses to accounts.  One action processes    *)
(* one set_favorites transaction from account validation (SetFavorites)     *)
(* through the handler body to the account's exit serialization, as one     *)
(* atomic step: a failed transaction commits nothing.                       *)
(***************************************************************************)
EXTENDS Integers, Sequences, FiniteSets, TLC

\* ------------------------------------------------------------------ bounds
NumUsers == 2

Users == 1..NumUsers

\* --------------------------------------------------------------- addresses
\* A public key is modelled by the data that determines it: wallets by the
\* user, program derived addresses by their seeds (the derivation is a hash,
\* collision-free for the host; here it is injective in its seeds).
Pubkey(u) == [tag |-> "wallet", id |-> u]

ID == [tag |-> "program", id |-> 0]

SYSTEM_PROGRAM_ID == [tag |-> "system", id |-> 0]

FindProgramAddressNoUserSeed(seed, key) == [tag |-> seed, id |-> 0]

\* Pubkey::find_program_address(&[b"favorites", user.key().as_ref()], program_id)
FindProgramAddress(seed, key) == [tag |-> seed, id |-> key.id]

Pda(u) == FindProgramAddress("favorites", Pubkey(u))

Wallets == {Pubkey(u) : u \in Users}

Addresses == Wallets \cup {Pda(u) : u \in Users}

\* ----------------------------------------------------------------- strings
\* A String is a sequence of characters, kept as a sequence of runs: n times
\* the character ch.  Borsh writes its UTF-8 bytes.
Run(ch, n) == [ch |-> ch, n |-> n]

Rep(ch, n) == <<Run(ch, n)>>

Text(chars) == [i \in 1..Len(chars) |-> Run(chars[i], 1)]

Utf8Len(ch) == IF ch = "U+00E9" THEN 2 ELSE 1

RECURSIVE BytesUpTo(_, _)
BytesUpTo(s, k) ==
    IF k = 0 THEN 0 ELSE s[k].n * Utf8Len(s[k].ch) + BytesUpTo(s, k - 1)

\* str::len(): the number of bytes.
ByteLen(s) == BytesUpTo(s, Len(s))

RECURSIVE CharsUpTo(_, _)
CharsUpTo(s, k) == IF k = 0 THEN 0 ELSE s[k].n + CharsUpTo(s, k - 1)

\* chars().count(): the number of characters.
CharLen(s) == CharsUpTo(s, Len(s))

\* ------------------------------------------------------- account schema
ANCHOR_DISCRIMINATOR_SIZE == 8

U64_SIZE == 8

LEN_PREFIX == 4

COLOR_MAX_LEN == 50

HOBBIES_MAX_COUNT == 5

HOBBY_MAX_LEN == 50

INIT_SPACE ==
    U64_SIZE
    + (LEN_PREFIX + COLOR_MAX_LEN)
    + (LEN_PREFIX + HOBBIES_MAX_COUNT * (LEN_PREFIX + HOBBY_MAX_LEN))

SpaceNoDiscriminator == INIT_SPACE

\* space = ANCHOR_DISCRIMINATOR_SIZE + Favorites::INIT_SPACE
Space == ANCHOR_DISCRIMINATOR_SIZE + INIT_SPACE

Favorites(number, color, hobbies) ==
    [number |-> number, color |-> color, hobbies |-> hobbies]

RECURSIVE VecBytes(_, _)
VecBytes(v, n) ==
    IF n = 0 THEN 0 ELSE (LEN_PREFIX + ByteLen(v[n])) + VecBytes(v, n - 1)

\* Borsh size of a Favorites value: u64, then the length-prefixed color, then
\* the length-prefixed list of length-prefixed hobbies.
BorshSize(f) ==
    U64_SIZE + (LEN_PREFIX + ByteLen(f.color)) + (LEN_PREFIX + VecBytes(f.hobbies, Len(f.hobbies)))

\* The account's bytes: the discriminator followed by the Borsh encoding.
EncodedSize(f) == ANCHOR_DISCRIMINATOR_SIZE + BorshSize(f)

\* ------------------------------------------------------------------ ledger
EmptyData == Favorites(0, <<>>, <<>>)

Account(owner, space, lamports, data) ==
    [owner |-> owner, space |-> space, lamports |-> lamports, data |-> data]

NoAccount == Account("system", 0, 0, EmptyData)

\* Rent-exempt minimum the payer transfers to a new account of `space` bytes.
RentMinimumBalance(space) == (128 + space) * 3480 * 2

Funded == 2 * RentMinimumBalance(Space)

IsRecord(a) == a.owner = "favorites"

\* ------------------------------------------------------------------ inputs
Blue == Text(<<"b", "l", "u", "e">>)

Chess == Text(<<"c", "h", "e", "s", "s">>)

Reading == Text(<<"r", "e", "a", "d", "i", "n", "g">>)

\* The arguments submitted: the spec's example; an exact fit (50-byte color,
\* 5 hobbies of 50 bytes: 344 bytes); the same with a 2-byte last character
\* in the color (50 characters, 345 bytes); 6 one-character hobbies; one
\* hobby of 51 characters; a color of 51 characters.
Args ==
    { Favorites(42, Blue, <<Chess, Reading>>),
      Favorites(7, Rep("a", 50), [i \in 1..5 |-> Rep("h", 50)]),
      Favorites(7, Rep("a", 49) \o Rep("U+00E9", 1), [i \in 1..5 |-> Rep("h", 50)]),
      Favorites(3, Blue, [i \in 1..6 |-> Rep("x", 1)]),
      Favorites(0, Blue, <<Rep("h", 51)>>),
      Favorites(42, Rep("a", 51), <<>>) }

\* The account list of a transaction, in the order of SetFavorites, with the
\* signature flag of the user account.
AccountList(user, isSigner, favorites, system_program) ==
    [ user |-> user, isSigner |-> isSigner, favorites |-> favorites,
      system_program |-> system_program ]

\* The list SetFavorites asks of user u.
WellFormed(u) == AccountList(Pubkey(u), TRUE, Pda(u), SYSTEM_PROGRAM_ID)

\* The account lists submitted: the well-formed list of every user and every
\* list that differs from it in one place (the signature missing, another
\* program in place of the system program, any other address as the target).
AccountLists ==
    UNION { {WellFormed(u),
             [WellFormed(u) EXCEPT !.isSigner = FALSE],
             [WellFormed(u) EXCEPT !.system_program = ID]}
            \cup {[WellFormed(u) EXCEPT !.favorites = a] : a \in Addresses}
            : u \in Users }

\* A transaction is an account list and the three arguments.
Txs == [ list : AccountLists, args : Args ]

\* accounts: the ledger.  last: the receipt of the last processed transaction
\* (its account list, its result, the program log, whether it created a
\* record); the arguments appear in it as the handler's msg! lines print them.
VARIABLES accounts, last

vars == <<accounts, last>>

Receipt(list, result, logs, created) ==
    [tx |-> list, result |-> result, logs |-> logs, created |-> created]

NoTx ==
    Receipt(AccountList(SYSTEM_PROGRAM_ID, FALSE, SYSTEM_PROGRAM_ID, SYSTEM_PROGRAM_ID),
            "None", <<>>, FALSE)

\* ------------------------------------------------- account validation
Checked(err, accts, created) == [err |-> err, accounts |-> accts, created |-> created]

\* init_if_needed, payer = user, space = Space: an address still owned by the
\* system program is created (the payer funds it up to the rent-exempt
\* minimum); an existing record is only checked against the declared space.
init_if_needed(accts, payer, target) ==
    LET acct == accts[target]
        rent == RentMinimumBalance(Space)
        need == IF acct.lamports >= rent THEN 0 ELSE rent - acct.lamports
    IN  IF acct.owner = "system"
        THEN IF accts[payer].lamports < need
             THEN Checked("InsufficientFunds", accts, FALSE)
             ELSE Checked("Ok",
                          [accts EXCEPT
                              ![payer].lamports = @ - need,
                              ![target] = Account("favorites", Space,
                                                  acct.lamports + need, EmptyData)],
                          TRUE)
        ELSE IF acct.space # Space
             THEN Checked("ConstraintSpace", accts, FALSE)
             ELSE Checked("Ok", accts, FALSE)

try_accountsNoSigner(accts, list) ==
    IF list.system_program # SYSTEM_PROGRAM_ID
    THEN Checked("InvalidProgramId", accts, FALSE)
    ELSE IF list.favorites # FindProgramAddress("favorites", list.user)
    THEN Checked("ConstraintSeeds", accts, FALSE)
    ELSE init_if_needed(accts, list.user, list.favorites)

try_accountsNoSeeds(accts, list) ==
    IF ~list.isSigner
    THEN Checked("AccountNotSigner", accts, FALSE)
    ELSE IF list.system_program # SYSTEM_PROGRAM_ID
    THEN Checked("InvalidProgramId", accts, FALSE)
    ELSE init_if_needed(accts, list.user, list.favorites)

\* The checks of #[derive(Accounts)] SetFavorites, in the order Anchor runs
\* them: Signer, Program<System>, seeds, then init_if_needed.
try_accounts(accts, list) ==
    IF ~list.isSigner
    THEN Checked("AccountNotSigner", accts, FALSE)
    ELSE IF list.system_program # SYSTEM_PROGRAM_ID
    THEN Checked("InvalidProgramId", accts, FALSE)
    ELSE IF list.favorites # FindProgramAddress("favorites", list.user)
    THEN Checked("ConstraintSeeds", accts, FALSE)
    ELSE init_if_needed(accts, list.user, list.favorites)

\* ------------------------------------------------------------- handler
set_innerAppendHobbies(acct, inner) ==
    [acct EXCEPT !.data = [inner EXCEPT !.hobbies = acct.data.hobbies \o @]]

set_innerKeepNumber(acct, inner) ==
    [acct EXCEPT !.data = [inner EXCEPT !.number =
                              IF acct.data = EmptyData THEN @ ELSE acct.data.number]]

\* Account::set_inner replaces the whole deserialized value.
set_inner(acct, inner) == [acct EXCEPT !.data = inner]

Reverse(s) == [i \in 1..Len(s) |-> s[Len(s) + 1 - i]]

set_favoritesReversedHobbies(accts, tx) ==
    [ logs |-> << <<"Greetings from", ID>>,
                  <<"User's favorite number and color", tx.list.user,
                    tx.args.number, tx.args.color>>,
                  <<"User's hobbies are", tx.args.hobbies>> >>,
      accounts |-> [accts EXCEPT ![tx.list.favorites] =
                       set_inner(@, Favorites(tx.args.number, tx.args.color,
                                              Reverse(tx.args.hobbies)))] ]

\* The handler body: three msg! lines, then set_inner of a Favorites built
\* from the three arguments.
set_favorites(accts, tx) ==
    [ logs |-> << <<"Greetings from", ID>>,
                  <<"User's favorite number and color", tx.list.user,
                    tx.args.number, tx.args.color>>,
                  <<"User's hobbies are", tx.args.hobbies>> >>,
      accounts |-> [accts EXCEPT ![tx.list.favorites] =
                       set_inner(@, Favorites(tx.args.number, tx.args.color,
                                              tx.args.hobbies))] ]

\* Account::exit writes the discriminator and the Borsh encoding into the
\* account's data; it fails when they do not fit.
exit(acct) ==
    IF EncodedSize(acct.data) > acct.space THEN "AccountDidNotSerialize" ELSE "Ok"

ProcessInstructionNoRollback(accts, tx) ==
    LET v == try_accounts(accts, tx.list)
    IN  IF v.err # "Ok"
        THEN [accounts |-> accts, receipt |-> Receipt(tx.list, v.err, <<>>, FALSE)]
        ELSE LET h == set_favorites(v.accounts, tx)
                 e == exit(h.accounts[tx.list.favorites])
             IN  IF e # "Ok"
                 THEN [accounts |-> v.accounts, receipt |-> Receipt(tx.list, e, h.logs, FALSE)]
                 ELSE [accounts |-> h.accounts,
                       receipt |-> Receipt(tx.list, "Ok", h.logs, v.created)]

\* One instruction, atomically: validation, handler, exit.  Any error leaves
\* the ledger as it was; the log lines of a handler that ran are kept.
ProcessInstruction(accts, tx) ==
    LET v == try_accounts(accts, tx.list)
    IN  IF v.err # "Ok"
        THEN [accounts |-> accts, receipt |-> Receipt(tx.list, v.err, <<>>, FALSE)]
        ELSE LET h == set_favorites(v.accounts, tx)
                 e == exit(h.accounts[tx.list.favorites])
             IN  IF e # "Ok"
                 THEN [accounts |-> accts, receipt |-> Receipt(tx.list, e, h.logs, FALSE)]
                 ELSE [accounts |-> h.accounts,
                       receipt |-> Receipt(tx.list, "Ok", h.logs, v.created)]

\* ------------------------------------------------------- specification
Init ==
    /\ \E bal \in [Wallets -> {0, Funded}] :
          accounts = [a \in Addresses |->
                        IF a \in Wallets
                        THEN Account("system", 0, bal[a], EmptyData)
                        ELSE NoAccount]
    /\ last = NoTx

SetFavorites(tx) ==
    LET r == ProcessInstruction(accounts, tx)
    IN  /\ accounts' = r.accounts
        /\ last' = r.receipt

Next == \E tx \in Txs : SetFavorites(tx)

Spec == Init /\ [][Next]_vars

\* ------------------------------------------------------------ properties
\* The address the claims speak of: derived from the tag "favorites" and the
\* identity behind a wallet key.
Derived(key) == [tag |-> "favorites", id |-> key.id]

\* The schema bounds, counted in characters.
WithinBounds(f) ==
    /\ CharLen(f.color) <= 50
    /\ Len(f.hobbies) <= 5
    /\ \A i \in 1..Len(f.hobbies) : CharLen(f.hobbies[i]) <= 50

Records(accts) == {a \in Addresses : IsRecord(accts[a])}

Example == Favorites(42, Blue, <<Chess, Reading>>)

\* The arguments of the processed call, as its log lines print them.
Logged(r) ==
    IF r.logs = <<>> THEN EmptyData
    ELSE Favorites(r.logs[2][3], r.logs[2][4], r.logs[3][2])

\* C1: a successful call by a user without a record, with inputs within the
\* schema bounds, creates exactly one record, at the address derived from
\* "favorites" and the user, holding the inputs exactly (hobby order included).
C1_CreateMatchesInput ==
    [][ ( /\ last'.result = "Ok"
          /\ ~IsRecord(accounts[Derived(last'.tx.user)])
          /\ WithinBounds(Logged(last')) )
        => /\ Records(accounts') = Records(accounts) \cup {Derived(last'.tx.user)}
           /\ accounts'[Derived(last'.tx.user)].data = Logged(last')
           /\ \A a \in Records(accounts) : accounts'[a] = accounts[a] ]_vars

C1_Witness ==
    /\ last.result = "Ok"
    /\ last.created
    /\ Logged(last) = Example
    /\ IsRecord(accounts[Derived(last.tx.user)])
    /\ accounts[Derived(last.tx.user)].data = Example

\* C2: every successful call replaces the signer's whole record by its inputs,
\* and any other step leaves the record as it was; so the record always
\* equals the inputs of the last successful call of its user.
C2_LastCallWins ==
    [][ \A u \in Users :
          IF last'.result = "Ok" /\ last'.tx.user = Pubkey(u)
          THEN accounts'[Derived(Pubkey(u))].data = Logged(last')
          ELSE accounts'[Derived(Pubkey(u))] = accounts[Derived(Pubkey(u))] ]_vars

C2_Witness ==
    /\ last.result = "Ok"
    /\ ~last.created
    /\ Logged(last) = Example
    /\ accounts[Derived(last.tx.user)].data = Example

\* C3: distinct users have distinct derived addresses, and a call whose user
\* account is A (successful or rejected) leaves the record and the wallet of
\* every other user B unchanged, an absent record included.
C3_Isolation ==
    [][ /\ \A u, v \in Users : u # v => Pda(u) # Pda(v)
        /\ \A u \in Users :
              last'.tx.user # Pubkey(u)
              => /\ accounts'[Pda(u)] = accounts[Pda(u)]
                 /\ accounts'[Pubkey(u)] = accounts[Pubkey(u)] ]_vars

C3_Witness ==
    /\ last.result = "Ok"
    /\ \E u, v \in Users :
          /\ u # v
          /\ last.tx.user = Pubkey(u)
          /\ IsRecord(accounts[Pda(u)])
          /\ IsRecord(accounts[Pda(v)])
          /\ accounts[Pda(u)].data # accounts[Pda(v)].data

\* C4: a call with 6 hobbies, or with a hobby of 51 characters, is rejected;
\* a call with a color within the bound and exactly 5 hobbies of exactly 50
\* characters is never rejected for lack of space.
C4_HobbyBoundary ==
    /\ ( \/ Len(Logged(last).hobbies) = 6
         \/ \E i \in 1..Len(Logged(last).hobbies) :
               CharLen(Logged(last).hobbies[i]) = 51 )
       => last.result # "Ok"
    /\ ( /\ CharLen(Logged(last).color) <= 50
         /\ Len(Logged(last).hobbies) = 5
         /\ \A i \in 1..5 : CharLen(Logged(last).hobbies[i]) = 50 )
       => last.result # "AccountDidNotSerialize"

\* C5: an account changes only in a successful transaction signed by the
\* user it belongs to (the signer's wallet, or the record derived from the
\* signer); a transaction that is unsigned, or whose target does not derive
\* from its user, is rejected before the handler logs anything and writes
\* nothing.
C5_OnlyOwnerWrites ==
    [][ /\ \A a \in Addresses :
              accounts'[a] # accounts[a]
              => /\ last'.result = "Ok"
                 /\ last'.tx.isSigner
                 /\ a \in {last'.tx.user, Derived(last'.tx.user)}
        /\ (~last'.tx.isSigner \/ last'.tx.favorites # Derived(last'.tx.user))
           => /\ last'.result \in {"AccountNotSigner", "InvalidProgramId",
                                    "ConstraintSeeds"}
              /\ last'.logs = <<>>
              /\ accounts' = accounts ]_vars

C5_Witness ==
    /\ last.tx.isSigner
    /\ last.tx.system_program = SYSTEM_PROGRAM_ID
    /\ last.tx.favorites # Derived(last.tx.user)
    /\ IsRecord(accounts[last.tx.favorites])
    /\ last.result = "ConstraintSeeds"
    /\ last.logs = <<>>

\* C6: a rejected transaction leaves the whole ledger unchanged: no record
\* is created or modified and no wallet is debited.
C6_RejectedChangesNothing ==
    [][ last'.result # "Ok" => accounts' = accounts ]_vars

C6_Witness ==
    /\ last.result = "AccountDidNotSerialize"
    /\ last.tx.favorites = Derived(last.tx.user)
    /\ accounts[last.tx.favorites] = NoAccount
    /\ accounts[last.tx.user].lamports = Funded

\* C7: every stored record is within the schema bounds (color at most 50
\* characters, at most 5 hobbies, every hobby at most 50 characters).
C7_StoredWithinBounds ==
    \A a \in Addresses : IsRecord(accounts[a]) => WithinBounds(accounts[a].data)

\* C8: a record that exists keeps existing; a record appears only by a
\* successful signed call of its own user, at the address derived from that
\* user, and a successful call leaves that record in place; no identity has
\* more than one record.
C8_CreatedOnceNeverDeleted ==
    [][ /\ \A a \in Addresses : IsRecord(accounts[a]) => IsRecord(accounts'[a])
        /\ \A a \in Addresses :
              (~IsRecord(accounts[a]) /\ IsRecord(accounts'[a]))
              => /\ last'.result = "Ok"
                 /\ last'.created
                 /\ last'.tx.isSigner
                 /\ a = Derived(last'.tx.user)
        /\ last'.result = "Ok" => IsRecord(accounts'[Derived(last'.tx.user)])
        /\ \A u \in Users :
              Cardinality({a \in Records(accounts') : a.id = u}) <= 1 ]_vars

C8_Witness ==
    /\ last.result \notin {"Ok", "None"}
    /\ last.tx.isSigner
    /\ last.tx.favorites = Derived(last.tx.user)
    /\ IsRecord(accounts[last.tx.favorites])
    /\ \E u \in Users : ~IsRecord(accounts[Pda(u)])

\* The ledger after t1 and then t2, each processed as one step.
After(accts, t1, t2) ==
    ProcessInstruction(ProcessInstruction(accts, t1).accounts, t2).accounts

\* The transactions of users on their own records (the others are rejected
\* without effect whatever the ledger, see C5 and C6).
OwnTxs == {t \in Txs : \E u \in Users : t.list = WellFormed(u)}

\* C9: from every ledger the program reaches (each is first reached by a
\* successful transaction or is initial), two transactions of different
\* users give the same ledger in either order, and two of the same user leave
\* that user's record equal to the inputs of the later successful one (to
\* those of the earlier one when the later is rejected), never a mix.
C9_Serializable ==
    last.result \in {"Ok", "None"}
    => \A t1, t2 \in OwnTxs :
         IF t1.list.user # t2.list.user
         THEN After(accounts, t1, t2) = After(accounts, t2, t1)
         ELSE LET r1 == ProcessInstruction(accounts, t1)
                  r2 == ProcessInstruction(r1.accounts, t2)
                  rec == r2.accounts[Derived(t1.list.user)]
              IN  /\ r2.receipt.result = "Ok" => rec.data = t2.args
                  /\ (r2.receipt.result # "Ok" /\ r1.receipt.result = "Ok")
                     => rec.data = t1.args
                  /\ (r2.receipt.result # "Ok" /\ r1.receipt.result # "Ok")
                     => rec = accounts[Derived(t1.list.user)]

C9_Witness ==
    /\ last.result = "Ok"
    /\ ~last.created
    /\ \A u \in Users : IsRecord(accounts[Pda(u)])
    /\ \E u, v \in Users :
          /\ accounts[Pda(u)].data = Example
          /\ accounts[Pda(v)].data # Example

\* C10: a record's space is the 8-byte discriminator plus 8 + (4+50) +
\* (4 + 5*(4+50)) and its encoding fits it, after any number of calls; the
\* record holds the rent of that space and its user has paid that rent
\* exactly once, however many calls followed the creation.
C10_SpaceFixed ==
    \A u \in Users :
      LET wallet == accounts[Pubkey(u)]
          record == accounts[Derived(Pubkey(u))]
      IN  IF IsRecord(record)
          THEN /\ record.space = 8 + (8 + (4 + 50) + (4 + 5 * (4 + 50)))
               /\ EncodedSize(record.data) <= record.space
               /\ record.lamports = RentMinimumBalance(record.space)
               /\ wallet.lamports = Funded - record.lamports
          ELSE /\ record = NoAccount
               /\ wallet.lamports \in {0, Funded}

C10_Witness ==
    /\ last.result = "Ok"
    /\ ~last.created
    /\ EncodedSize(accounts[last.tx.favorites].data) = accounts[last.tx.favorites].space
    /\ accounts[last.tx.user].lamports = Funded - RentMinimumBalance(344)

====
